---- MODULE Spec2Model ----
(***************************************************************************)
(* Model of src/neural_net.py: class RecurrentNet.                         *)
(*                                                                         *)
(* Representation.                                                         *)
(*   - a character is its code point (a natural number); a Python str is   *)
(*     the sequence of its code points;                                    *)
(*   - a Python list is a sequence; Python index i is TLA+ index i + 1;    *)
(*   - a dict is a function whose DOMAIN is the set of its keys;           *)
(*   - a numpy array is a sequence of rows, a row a sequence of 0/1;       *)
(*   - Python's None is the empty tuple <<>> for self.data and             *)
(*     self.unique_char_set (a list x is the one-element tuple <<x>>), and *)
(*     NoneIdx for conversion_index;                                       *)
(*   - the keras model is opaque: only the arg-max of the row that         *)
(*     generate_text reads from model.predict is modelled, as a function   *)
(*     of the whole input tensor that is fixed as long as the weights are. *)
(***************************************************************************)
EXTENDS Integers, Sequences, FiniteSets, TLC

(***************************************************************************)
(* Bounds of the model.                                                    *)
(***************************************************************************)
\* number of distinct characters a raw text may use
NumChars == 2
\* longest raw text and largest corpus of the construction specification
MaxRawLen == 2
MaxRecords == 2
\* longest raw text of the one-record corpus behind a session the sampler
\* specification starts from
SamplerMaxRawLen == 1
\* the same for the training specification
TrainMaxRawLen == 0
\* largest num_epochs passed to train
MaxEpochs == 51
\* calls of generate_text with the same weights, and calls of import_weights
MaxCalls == 2
MaxLoads == 1
\* largest num_epochs of a train that follows remove_extra_characters
PruneMaxEpochs == 1

(***************************************************************************)
(* Characters.                                                             *)
(***************************************************************************)
\* '\0', the pad sentinel; '\1', the start sentinel; '\2', the end sentinel
NUL == 0
SOH == 1
STX == 2
\* ' ' and '0'
SPACE == 32
DIGIT0 == 48

\* the characters raw texts are drawn from: 'h', '\0', 'i', 'y', 'o', ...
AlphabetPool == <<104, 0, 105, 121, 111, 1, 2, 97, 98, 99>>
Alphabet == {AlphabetPool[k] : k \in 1..NumChars}

Texts(maxlen) == UNION {[1..n -> Alphabet] : n \in 0..maxlen}

\* One object of the parsed dataset file (a `line` of lines 64 and 72), by what its
\* 'text' is: a str; absent (line['text'] raises KeyError); a value without len(),
\* such as a number or null (len raises TypeError); a value with len() that is no
\* str, such as a list (len counts it, '\1' + text raises TypeError).
StrLine(text) == [kind |-> "str", text |-> text]
Lines(maxlen) ==
    {StrLine(text) : text \in Texts(maxlen)}
    \cup {[kind |-> "absent", text |-> <<>>], [kind |-> "nolen", text |-> <<>>]}
    \cup {[kind |-> "list", text |-> [k \in 1..n |-> NUL]] : n \in 0..maxlen}

\* the files whose objects all hold a str, and all files
Corpora(maxrecords, maxlen) ==
    UNION {[1..n -> {StrLine(text) : text \in Texts(maxlen)}] : n \in 0..maxrecords}
Files(maxrecords, maxlen) == UNION {[1..n -> Lines(maxlen)] : n \in 0..maxrecords}

DataSources == {"trump", "alice", "other"}
FileStatuses == {"ok", "missing", "malformed"}

\* Python's None where an index is expected (no key of int_to_char_dict)
NoneIdx == -1

(***************************************************************************)
(* Pure helpers of import_data and get_character_set.                      *)
(***************************************************************************)
\* lines 64-67: the running maximum over len(line['text']), up to the first line
\* whose len(line['text']) raises
RECURSIVE LongestText(_, _)
LongestText(lines, longest) ==
    IF lines = <<>> THEN longest
    ELSE IF Head(lines).kind \in {"absent", "nolen"} THEN longest
    ELSE LongestText(Tail(lines),
                     IF Len(Head(lines).text) > longest
                     THEN Len(Head(lines).text) ELSE longest)

\* line 65 raises for some line (KeyError or TypeError)
FirstLoopRaises(lines) == \E k \in 1..Len(lines) : lines[k].kind \in {"absent", "nolen"}

\* line 74 raises for some line (TypeError)
SecondLoopRaises(lines) == \E k \in 1..Len(lines) : lines[k].kind # "str"

ComputeMaxStringLength_short(lines, old_max) ==
    IF FirstLoopRaises(lines)
    THEN LongestText(lines, old_max)
    ELSE LongestText(lines, old_max) + 2

\* lines 64-68: what self.max_string_length is left with; the += 3 of line 68 is
\* reached only when the first loop has not raised
ComputeMaxStringLength(lines, old_max) ==
    IF FirstLoopRaises(lines)
    THEN LongestText(lines, old_max)
    ELSE LongestText(lines, old_max) + 3

\* lines 73-76: '\1' + text + '\2' + '\0'
WrapRecord(text) == <<SOH>> \o text \o <<STX>> \o <<NUL>>

\* lines 72-77, for lines that all hold a str
WrapDataset(lines) == [k \in 1..Len(lines) |-> WrapRecord(lines[k].text)]

\* line 136: ''.join(self.data)
RECURSIVE Join(_)
Join(records) == IF records = <<>> THEN <<>> ELSE Head(records) \o Join(Tail(records))

SetMin(S) == CHOOSE m \in S : \A x \in S : m <= x
SetMax(S) == CHOOSE m \in S : \A x \in S : m >= x

RECURSIVE SortedDesc(_)
SortedDesc(S) == IF S = {} THEN <<>> ELSE <<SetMax(S)>> \o SortedDesc(S \ {SetMax(S)})

\* sorted(list(set(...))): ascending code point order
RECURSIVE Sorted(_)
Sorted(S) == IF S = {} THEN <<>> ELSE <<SetMin(S)>> \o Sorted(S \ {SetMin(S)})

\* line 137
UniqueCharSet(records) ==
    LET dataset_string == Join(records)
    IN  Sorted({dataset_string[k] : k \in 1..Len(dataset_string)})

\* lines 148-149: for enumeration, value in enumerate(...): d[value] = enumeration
CharToIntDict(old, chars) ==
    [c \in DOMAIN old \cup {chars[k] : k \in 1..Len(chars)} |->
        IF \E k \in 1..Len(chars) : chars[k] = c
        THEN (CHOOSE k \in 1..Len(chars) : chars[k] = c) - 1
        ELSE old[c]]

\* lines 153-154: for value, enumeration in enumerate(...): d[value] = enumeration
IntToCharDict(old, chars) ==
    [i \in DOMAIN old \cup {k - 1 : k \in 1..Len(chars)} |->
        IF i + 1 \in 1..Len(chars) THEN chars[i + 1] ELSE old[i]]

(***************************************************************************)
(* Pure helpers of remove_extra_characters.                                *)
(***************************************************************************)
\* dataset_string.count(char)
Count(char, string) == Cardinality({k \in 1..Len(string) : string[k] = char})

\* list.remove(char): without the first element equal to char
RemoveFirst(chars, char) ==
    LET j == CHOOSE k \in 1..Len(chars) :
                /\ chars[k] = char
                /\ \A q \in 1..(k - 1) : chars[q] # char
    IN  SubSeq(chars, 1, j - 1) \o SubSeq(chars, j + 1, Len(chars))

\* lines 169-172: the for loop is at (Python) position i of the list it removes
\* from, so the element after a removed one is passed over
RECURSIVE RemoveExtra(_, _, _, _)
RemoveExtra(chars, i, dataset_string, min_required_count) ==
    IF i >= Len(chars) THEN chars
    ELSE IF Count(chars[i + 1], dataset_string) < min_required_count
    THEN RemoveExtra(RemoveFirst(chars, chars[i + 1]), i + 1,
                     dataset_string, min_required_count)
    ELSE RemoveExtra(chars, i + 1, dataset_string, min_required_count)

(***************************************************************************)
(* Pure helpers of train, convert_to_onehot and append_onehot.             *)
(***************************************************************************)
ZeroRow(nchars) == [c \in 1..nchars |-> 0]

\* numpy.zeros((rows, nchars))
Zeros(rows, nchars) == [r \in 1..rows |-> ZeroRow(nchars)]

\* new_row[0][i] = 1 of lines 232 and 244 raises IndexError: i is no column
OneHotRaises(i, nchars) == i >= nchars \/ i < -nchars

\* a row of zeros with a 1 in (Python) column i, a negative i counting from the
\* end; no row where the assignment raises
OneHotRow(i, nchars) ==
    IF OneHotRaises(i, nchars) THEN <<>>
    ELSE [c \in 1..nchars |-> IF c = (IF i < 0 THEN nchars + i ELSE i) + 1 THEN 1 ELSE 0]

\* line 232 raises IndexError: the sequence is longer than the tensor, or an index
\* is no column
ConvertRaises(sequence, msl, nchars) ==
    \/ Len(sequence) > msl
    \/ \E r \in 1..Len(sequence) : OneHotRaises(sequence[r], nchars)

convert_to_onehot_short(sequence, msl, nchars) ==
    IF ConvertRaises(sequence, msl, nchars)
    THEN [exception |-> "IndexError", value |-> <<>>]
    ELSE [exception |-> "None",
          value |-> [r \in 1..msl |->
                        IF r <= Len(sequence) - 1
                        THEN OneHotRow(sequence[r], nchars) ELSE ZeroRow(nchars)]]

\* lines 229-233; msl is self.max_string_length, nchars is len(self.unique_char_set).
\* The result is the exception raised and the tensor returned.
convert_to_onehot(sequence, msl, nchars) ==
    IF ConvertRaises(sequence, msl, nchars)
    THEN [exception |-> "IndexError", value |-> <<>>]
    ELSE [exception |-> "None",
          value |-> [r \in 1..msl |->
                        IF r <= Len(sequence)
                        THEN OneHotRow(sequence[r], nchars) ELSE ZeroRow(nchars)]]

\* lines 187-189
input_sequence(record, c2i) == [k \in 1..Len(record) |-> c2i[record[k]]]

output_sequence_poplast(record, c2i) ==
    Append(SubSeq(input_sequence(record, c2i), 1, Len(record) - 1), c2i[NUL])

\* lines 194-198: the indices of the record, pop(0), append the index of '\0'
output_sequence(record, c2i) == Append(Tail(input_sequence(record, c2i)), c2i[NUL])

\* lines 186-200 for one record: the first exception raised, or "None"
RecordException(record, c2i, msl, nchars) ==
    IF \E k \in 1..Len(record) : record[k] \notin DOMAIN c2i THEN "KeyError"
    ELSE IF ConvertRaises(input_sequence(record, c2i), msl, nchars) THEN "IndexError"
    ELSE IF record = <<>> THEN "IndexError"
    ELSE IF NUL \notin DOMAIN c2i THEN "KeyError"
    ELSE convert_to_onehot(output_sequence(record, c2i), msl, nchars).exception

\* lines 184-200: the exception of the first record that raises one, or "None"
TrainEncodeException(records, c2i, msl, nchars) ==
    IF \A r \in 1..Len(records) : RecordException(records[r], c2i, msl, nchars) = "None"
    THEN "None"
    ELSE RecordException(
            records[CHOOSE r \in 1..Len(records) :
                       /\ RecordException(records[r], c2i, msl, nchars) # "None"
                       /\ \A q \in 1..(r - 1) :
                             RecordException(records[q], c2i, msl, nchars) = "None"],
            c2i, msl, nchars)

\* keras pad_sequences(x, maxlen): padding='pre', truncating='pre', value=0
pad_sequences(sequences, maxlen) ==
    [s \in 1..Len(sequences) |->
        LET seq == sequences[s]
            n == Len(seq)
        IN  IF n >= maxlen
            THEN [r \in 1..maxlen |-> seq[n - maxlen + r]]
            ELSE [r \in 1..maxlen |->
                    IF r <= maxlen - n
                    THEN [c \in 1..Len(seq[1]) |-> 0]
                    ELSE seq[r - (maxlen - n)]]]

(***************************************************************************)
(* Pure helpers of generate_text.                                          *)
(***************************************************************************)
\* line 244 raises: KeyError for a char that is no key, IndexError for an index
\* that is no column; "None" otherwise
NewRowException(char, c2i, nchars) ==
    IF char \notin DOMAIN c2i THEN "KeyError"
    ELSE IF OneHotRaises(c2i[char], nchars) THEN "IndexError"
    ELSE "None"

append_onehot_clamped(old_onehot, row_index, char, c2i, nchars) ==
    LET rows == Len(old_onehot[1])
        row == IF row_index < rows THEN row_index ELSE rows - 1
    IN  IF NewRowException(char, c2i, nchars) # "None"
        THEN [exception |-> NewRowException(char, c2i, nchars), value |-> old_onehot]
        ELSE [exception |-> "None",
              value |-> [old_onehot EXCEPT ![1][row + 1] = OneHotRow(c2i[char], nchars)]]

append_onehot_next(old_onehot, row_index, char, c2i, nchars) ==
    LET rows == Len(old_onehot[1])
    IN  IF NewRowException(char, c2i, nchars) # "None"
        THEN [exception |-> NewRowException(char, c2i, nchars), value |-> old_onehot]
        ELSE IF row_index + 1 < rows
        THEN [exception |-> "None",
              value |-> [old_onehot EXCEPT ![1][row_index + 2] =
                                              OneHotRow(c2i[char], nchars)]]
        ELSE [exception |-> "None", value |-> old_onehot]

\* lines 243-252: old_onehot has shape (1, rows, nchars).  The result is the
\* exception raised (line 244 is outside the try) and the tensor; the IndexError
\* of a row that does not exist is caught and the tensor is returned as it was.
append_onehot(old_onehot, row_index, char, c2i, nchars) ==
    LET rows == Len(old_onehot[1])
    IN  IF NewRowException(char, c2i, nchars) # "None"
        THEN [exception |-> NewRowException(char, c2i, nchars), value |-> old_onehot]
        ELSE IF 0 <= row_index /\ row_index < rows
        THEN [exception |-> "None",
              value |-> [old_onehot EXCEPT ![1][row_index + 1] =
                                              OneHotRow(c2i[char], nchars)]]
        ELSE IF -rows <= row_index /\ row_index < 0
        THEN [exception |-> "None",
              value |-> [old_onehot EXCEPT ![1][rows + row_index + 1] =
                                              OneHotRow(c2i[char], nchars)]]
        ELSE [exception |-> "None", value |-> old_onehot]

\* lines 278-282: the first column that holds a 1, or None
conversion_index(row) ==
    IF \E c \in 1..Len(row) : row[c] = 1
    THEN (CHOOSE c \in 1..Len(row) : row[c] = 1 /\ \A b \in 1..(c - 1) : row[b] # 1) - 1
    ELSE NoneIdx

\* str(n) of a natural number
RECURSIVE Str(_)
Str(n) == IF n < 10 THEN <<DIGIT0 + n>> ELSE Str(n \div 10) \o <<DIGIT0 + (n % 10)>>

RECURSIVE decode_char_string_short(_, _)
decode_char_string_short(rows, i2c) ==
    IF Len(rows) <= 1 THEN <<>>
    ELSE IF conversion_index(Head(rows)) \notin DOMAIN i2c THEN <<>>
    ELSE <<i2c[conversion_index(Head(rows))]>> \o decode_char_string_short(Tail(rows), i2c)

\* lines 275-287, generated_char_string: the rows in order, up to the first row
\* whose conversion_index is no key of int_to_char_dict (KeyError: break)
RECURSIVE decode_char_string(_, _)
decode_char_string(rows, i2c) ==
    IF rows = <<>> THEN <<>>
    ELSE IF conversion_index(Head(rows)) \notin DOMAIN i2c THEN <<>>
    ELSE <<i2c[conversion_index(Head(rows))]>> \o decode_char_string(Tail(rows), i2c)

\* lines 275-287, generated_int_string: str(conversion_index) + ' ' per row
RECURSIVE decode_int_string(_, _)
decode_int_string(rows, i2c) ==
    IF rows = <<>> THEN <<>>
    ELSE IF conversion_index(Head(rows)) \notin DOMAIN i2c THEN <<>>
    ELSE Str(conversion_index(Head(rows))) \o <<SPACE>> \o decode_int_string(Tail(rows), i2c)

\* lines 125-126 and 267: the model's output has one column per character it was
\* built for, so the arg-max of one of its rows is an index below nchars
ArgmaxRange(nchars) == 0..(nchars - 1)

(***************************************************************************)
(* State.                                                                  *)
(***************************************************************************)
VARIABLES
    pc,                 \* position of the program
    exception,          \* the exception that ended the process, or "None"
    data_source,        \* argument of __init__
    file_status,        \* whether the dataset file opens and parses
    file_lines,         \* the objects of the parsed dataset file
    model,              \* self.model: "None", "sequential" or "compiled"
    model_shape,        \* the input_shape self.model was built with; <<>> before
    data,               \* self.data: <<>> is None, <<dataset>> a list
    unique_char_set,    \* self.unique_char_set: <<>> is None, <<chars>> a list
    max_string_length,  \* self.max_string_length
    char_to_int_dict,   \* self.char_to_int_dict
    int_to_char_dict,   \* self.int_to_char_dict
    num_epochs,         \* argument of train
    train_index,        \* the epoch the loop of train is at (its `index`)
    input_sequences,    \* train: input_sequence of every record
    output_sequences,   \* train: output_sequence of every record
    features,           \* train: features
    targets,            \* train: targets
    trace,              \* the calls train has made to the model and the sampler
    caller,             \* who called generate_text: "train" or "session"
    generated_values,   \* the tuples generate_text has returned to its caller
                        \* since the weights last changed
    generated_text,     \* generate_text: generated_text
    generated_char_string,
    generated_int_string,
    index,              \* generate_text: the position its loop is at
    predict_value,      \* generate_text: predict_value
    weights,            \* identity of the model's current weights
    predicted           \* arg-max the current weights gave, per <<tensor, row>>

input_vars == <<data_source, file_status, file_lines>>
session_vars == <<model, model_shape, data, unique_char_set, max_string_length,
                  char_to_int_dict, int_to_char_dict>>
train_vars == <<train_index, input_sequences, output_sequences, features, targets, trace>>
sampler_vars == <<generated_text, generated_char_string, generated_int_string,
                  index, predict_value>>
vars == <<pc, exception, input_vars, session_vars, num_epochs, train_vars,
          caller, generated_values, sampler_vars, weights, predicted>>

\* len(self.unique_char_set)
NumUnique == Len(unique_char_set[1])

\* locals that are not bound
NoTrainLocals ==
    /\ train_index = 0
    /\ input_sequences = <<>>
    /\ output_sequences = <<>>
    /\ features = <<>>
    /\ targets = <<>>
    /\ trace = <<>>

NoSamplerLocals ==
    /\ generated_text = <<>>
    /\ generated_char_string = <<>>
    /\ generated_int_string = <<>>
    /\ index = 0
    /\ predict_value = NoneIdx

(***************************************************************************)
(* Construction: __init__ runs import_data, get_character_set and          *)
(* build_architecture in this order.                                       *)
(***************************************************************************)
\* lines 21-31: the fields as __init__ sets them, before import_data
Init ==
    /\ pc = "import_data"
    /\ exception = "None"
    /\ data_source \in DataSources
    /\ file_status \in FileStatuses
    /\ file_lines \in Files(MaxRecords, MaxRawLen)
    /\ file_status # "ok" => file_lines = <<>>
    /\ model = "None"
    /\ model_shape = <<>>
    /\ data = <<>>
    /\ unique_char_set = <<>>
    /\ max_string_length = 0
    /\ char_to_int_dict = <<>>
    /\ int_to_char_dict = <<>>
    /\ num_epochs = 0
    /\ NoTrainLocals
    /\ caller = "session"
    /\ generated_values = <<>>
    /\ NoSamplerLocals
    /\ weights = 0
    /\ predicted = <<>>

\* lines 46-86
import_data ==
    /\ pc = "import_data"
    /\ IF data_source \notin {"trump", "alice"}
       THEN \* lines 52-54: exit(1)
            /\ pc' = "exited"
            /\ exception' = "SystemExit"
            /\ UNCHANGED <<max_string_length, data>>
       ELSE IF file_status # "ok"
       THEN \* lines 84-86: open or json.load raised; logged, and import_data returns
            /\ pc' = "get_character_set"
            /\ UNCHANGED <<exception, max_string_length, data>>
       ELSE IF SecondLoopRaises(file_lines)
       THEN \* lines 84-86: a loop raised; self.max_string_length keeps what lines
            \* 66-68 have written, self.data is not assigned
            /\ max_string_length' = ComputeMaxStringLength(file_lines, max_string_length)
            /\ pc' = "get_character_set"
            /\ UNCHANGED <<exception, data>>
       ELSE /\ max_string_length' = ComputeMaxStringLength(file_lines, max_string_length)
            /\ data' = <<WrapDataset(file_lines)>>
            /\ pc' = "get_character_set"
            /\ UNCHANGED exception
    /\ UNCHANGED <<input_vars, model, model_shape, unique_char_set, char_to_int_dict,
                   int_to_char_dict,
                   num_epochs, train_vars, caller, generated_values, sampler_vars, weights, predicted>>

\* lines 136-155
get_character_set ==
    /\ pc = "get_character_set"
    /\ IF data = <<>>
       THEN \* line 136: ''.join(None) raises TypeError
            /\ pc' = "raised"
            /\ exception' = "TypeError"
            /\ UNCHANGED <<unique_char_set, char_to_int_dict, int_to_char_dict>>
       ELSE /\ unique_char_set' = <<UniqueCharSet(data[1])>>
            /\ char_to_int_dict' = CharToIntDict(char_to_int_dict, UniqueCharSet(data[1]))
            /\ int_to_char_dict' = IntToCharDict(int_to_char_dict, UniqueCharSet(data[1]))
            /\ pc' = "build_architecture"
            /\ UNCHANGED exception
    /\ UNCHANGED <<input_vars, model, model_shape, data, max_string_length,
                   num_epochs, train_vars, caller, generated_values, sampler_vars, weights, predicted>>

\* lines 93-129
build_architecture ==
    /\ pc = "build_architecture"
    /\ IF NUL \notin DOMAIN char_to_int_dict
       THEN \* line 98: self.char_to_int_dict['\0'] raises KeyError
            /\ model' = "sequential"
            /\ pc' = "raised"
            /\ exception' = "KeyError"
            /\ UNCHANGED model_shape
       ELSE /\ model' = "compiled"
            /\ model_shape' = <<max_string_length, NumUnique>>
            /\ pc' = "train"
            /\ UNCHANGED exception
    /\ UNCHANGED <<input_vars, data, unique_char_set, max_string_length, char_to_int_dict,
                   int_to_char_dict, num_epochs, train_vars, caller, generated_values,
                   sampler_vars, weights, predicted>>

(***************************************************************************)
(* train: the tensors (lines 182-207).                                     *)
(***************************************************************************)
train_encode ==
    /\ pc = "train"
    /\ IF TrainEncodeException(data[1], char_to_int_dict,
                               max_string_length, NumUnique) # "None"
       THEN \* lines 189, 191, 197, 198 or 200 raise, and train with them
            /\ pc' = "raised"
            /\ exception' = TrainEncodeException(data[1], char_to_int_dict,
                                                 max_string_length, NumUnique)
            /\ UNCHANGED <<train_index, input_sequences, output_sequences,
                           features, targets>>
       ELSE /\ input_sequences' =
                  [r \in 1..Len(data[1]) |-> input_sequence(data[1][r], char_to_int_dict)]
            /\ output_sequences' =
                  [r \in 1..Len(data[1]) |-> output_sequence(data[1][r], char_to_int_dict)]
            /\ features' = pad_sequences(
                  [r \in 1..Len(data[1]) |->
                      convert_to_onehot(input_sequence(data[1][r], char_to_int_dict),
                                        max_string_length, NumUnique).value],
                  max_string_length)
            /\ targets' = pad_sequences(
                  [r \in 1..Len(data[1]) |->
                      convert_to_onehot(output_sequence(data[1][r], char_to_int_dict),
                                        max_string_length, NumUnique).value],
                  max_string_length)
            /\ train_index' = 0
            /\ pc' = "epoch"
            /\ UNCHANGED exception
    /\ UNCHANGED <<input_vars, session_vars, num_epochs, trace,
                   caller, generated_values, sampler_vars, weights, predicted>>

Next == import_data \/ get_character_set \/ build_architecture \/ train_encode

Spec == Init /\ [][Next]_vars

(***************************************************************************)
(* The session a successful __init__ leaves for a dataset file.            *)
(***************************************************************************)
Constructed(lines) ==
    /\ exception = "None"
    /\ data_source = "trump"
    /\ file_status = "ok"
    /\ file_lines = lines
    /\ model = "compiled"
    /\ model_shape = <<ComputeMaxStringLength(lines, 0),
                       Len(UniqueCharSet(WrapDataset(lines)))>>
    /\ data = <<WrapDataset(lines)>>
    /\ unique_char_set = <<UniqueCharSet(WrapDataset(lines))>>
    /\ max_string_length = ComputeMaxStringLength(lines, 0)
    /\ char_to_int_dict = CharToIntDict(<<>>, UniqueCharSet(WrapDataset(lines)))
    /\ int_to_char_dict = IntToCharDict(<<>>, UniqueCharSet(WrapDataset(lines)))
    /\ weights = 0
    /\ predicted = <<>>

(***************************************************************************)
(* generate_text.                                                          *)
(***************************************************************************)
ArgmaxOfPredict_sampled(tensor, row, value) == value \in ArgmaxRange(model_shape[2])

\* lines 266-267: numpy.argmax(self.model.predict(generated_text)[0][index]).  The
\* weights fix the prediction for a tensor; a tensor they have not been asked about
\* may give any index.
ArgmaxOfPredict(tensor, row, value) ==
    IF <<tensor, row>> \in DOMAIN predicted
    THEN value = predicted[<<tensor, row>>]
    ELSE value \in ArgmaxRange(model_shape[2])

Raise(exc) ==
    /\ pc' = "raised"
    /\ exception' = exc

\* lines 259-263
generate_text_init ==
    /\ pc = "generate_text"
    /\ LET first == append_onehot(<<Zeros(max_string_length, NumUnique)>>, 0, SOH,
                                  char_to_int_dict, NumUnique)
       IN  IF first.exception # "None"
           THEN \* line 244, called from line 261: not in a try
                /\ Raise(first.exception)
                /\ UNCHANGED sampler_vars
           ELSE /\ generated_text' = first.value
                /\ generated_char_string' = <<>>
                /\ generated_int_string' = <<>>
                /\ index' = 0
                /\ pc' = "gen_loop"
                /\ UNCHANGED <<exception, predict_value>>
    /\ UNCHANGED <<input_vars, session_vars, num_epochs, train_vars, caller,
                   generated_values, weights, predicted>>

\* lines 264-287: one iteration of the loop, for index < max_string_length
generate_text_step ==
    /\ pc = "gen_loop"
    /\ index < max_string_length
    /\ IF <<max_string_length, NumUnique>> # model_shape
       THEN \* line 266: predict on a tensor that has not the model's input shape
            \* raises ValueError, which `except IndexError` does not catch
            /\ Raise("ValueError")
            /\ UNCHANGED <<sampler_vars, predicted>>
       ELSE \E value \in ArgmaxRange(model_shape[2]) :
            /\ ArgmaxOfPredict(generated_text, index, value)
            /\ predict_value' = value
            /\ predicted' = [k \in DOMAIN predicted \cup {<<generated_text, index>>} |->
                                IF k = <<generated_text, index>> THEN value ELSE predicted[k]]
            /\ IF value \notin DOMAIN int_to_char_dict
               THEN \* line 270: KeyError is not caught by `except IndexError`
                    /\ Raise("KeyError")
                    /\ UNCHANGED <<generated_text, generated_char_string,
                                   generated_int_string, index>>
               ELSE LET next == append_onehot(generated_text, index + 1,
                                              int_to_char_dict[value],
                                              char_to_int_dict, NumUnique)
                    IN  IF next.exception = "KeyError"
                        THEN \* line 244: KeyError
                             /\ Raise("KeyError")
                             /\ UNCHANGED <<generated_text, generated_char_string,
                                            generated_int_string, index>>
                        ELSE \* an IndexError of line 244 is caught at line 271
                             /\ generated_text' = next.value
                             /\ generated_char_string' =
                                   decode_char_string(next.value[1], int_to_char_dict)
                             /\ generated_int_string' =
                                   decode_int_string(next.value[1], int_to_char_dict)
                             /\ index' = index + 1
                             /\ UNCHANGED <<pc, exception>>
    /\ UNCHANGED <<input_vars, session_vars, num_epochs, train_vars, caller,
                   generated_values, weights>>

\* line 290: the loop is over; the tuple goes to the caller, the locals are gone
generate_text_return ==
    /\ pc = "gen_loop"
    /\ index = max_string_length
    /\ generated_values' =
          Append(generated_values, <<generated_int_string, generated_char_string>>)
    /\ generated_text' = <<>>
    /\ generated_char_string' = <<>>
    /\ generated_int_string' = <<>>
    /\ index' = 0
    /\ predict_value' = NoneIdx
    /\ pc' = IF caller = "train" THEN "log_sample" ELSE "ready"
    /\ UNCHANGED <<exception, input_vars, session_vars, num_epochs, train_vars, caller,
                   weights, predicted>>

(***************************************************************************)
(* train: the epochs (lines 209-221).                                      *)
(***************************************************************************)
SampleDue_late(epoch) == epoch % 10 = 9

\* line 214
SampleDue(epoch) == epoch % 10 = 0

\* line 218
SaveDue(epoch) == epoch % 50 = 0

\* line 213: fit changes the weights; no tuple has been returned under the new ones
train_fit ==
    /\ pc = "epoch"
    /\ train_index < num_epochs
    /\ trace' = Append(trace, <<"fit", train_index>>)
    /\ weights' = weights + 1
    /\ predicted' = <<>>
    /\ generated_values' = <<>>
    /\ pc' = "fitted"
    /\ UNCHANGED <<exception, input_vars, session_vars, num_epochs, train_index,
                   input_sequences, output_sequences, features, targets,
                   caller, sampler_vars>>

\* lines 214-215
train_sample ==
    /\ pc = "fitted"
    /\ SampleDue(train_index)
    /\ trace' = Append(trace, <<"sample", train_index>>)
    /\ caller' = "train"
    /\ pc' = "generate_text"
    /\ UNCHANGED <<exception, input_vars, session_vars, num_epochs, train_index,
                   input_sequences, output_sequences, features, targets,
                   generated_values, sampler_vars, weights, predicted>>

\* line 214, condition false
train_skip_sample ==
    /\ pc = "fitted"
    /\ ~SampleDue(train_index)
    /\ pc' = "sampled"
    /\ UNCHANGED <<exception, input_vars, session_vars, num_epochs, train_vars,
                   caller, generated_values, sampler_vars, weights, predicted>>

\* lines 216-217: the tuple is logged and not used again
train_log_sample ==
    /\ pc = "log_sample"
    /\ generated_values' = <<>>
    /\ pc' = "sampled"
    /\ UNCHANGED <<exception, input_vars, session_vars, num_epochs, train_vars,
                   caller, sampler_vars, weights, predicted>>

\* lines 218-221, and the next value of index
train_save ==
    /\ pc = "sampled"
    /\ SaveDue(train_index)
    /\ trace' = Append(trace, <<"save", train_index>>)
    /\ train_index' = train_index + 1
    /\ pc' = "epoch"
    /\ UNCHANGED <<exception, input_vars, session_vars, num_epochs,
                   input_sequences, output_sequences, features, targets,
                   caller, generated_values, sampler_vars, weights, predicted>>

\* line 218, condition false, and the next value of index
train_skip_save ==
    /\ pc = "sampled"
    /\ ~SaveDue(train_index)
    /\ train_index' = train_index + 1
    /\ pc' = "epoch"
    /\ UNCHANGED <<exception, input_vars, session_vars, num_epochs,
                   input_sequences, output_sequences, features, targets, trace,
                   caller, generated_values, sampler_vars, weights, predicted>>

\* line 209: range(num_epochs) is exhausted
train_return ==
    /\ pc = "epoch"
    /\ train_index = num_epochs
    /\ pc' = "ready"
    /\ UNCHANGED <<exception, input_vars, session_vars, num_epochs, train_vars,
                   caller, generated_values, sampler_vars, weights, predicted>>

\* train(num_epochs) on a constructed session
InitTrain ==
    /\ pc = "train"
    /\ \E text \in Texts(TrainMaxRawLen) : Constructed(<<StrLine(text)>>)
    /\ num_epochs \in 0..MaxEpochs
    /\ NoTrainLocals
    /\ caller = "session"
    /\ generated_values = <<>>
    /\ NoSamplerLocals

NextTrain ==
    \/ train_encode
    \/ train_fit
    \/ train_sample
    \/ train_skip_sample
    \/ generate_text_init
    \/ generate_text_step
    \/ generate_text_return
    \/ train_log_sample
    \/ train_save
    \/ train_skip_save
    \/ train_return

SpecTrain == InitTrain /\ [][NextTrain]_vars

(***************************************************************************)
(* The sampler, called on a constructed session.                           *)
(***************************************************************************)
\* a caller of the session invokes generate_text()
call_generate_text ==
    /\ pc = "ready"
    /\ Len(generated_values) < MaxCalls
    /\ caller' = "session"
    /\ pc' = "generate_text"
    /\ UNCHANGED <<exception, input_vars, session_vars, num_epochs, train_vars,
                   generated_values, sampler_vars, weights, predicted>>

\* lines 297-298: load_weights gives the model other weights
import_weights ==
    /\ pc = "ready"
    /\ weights < MaxLoads
    /\ weights' = weights + 1
    /\ predicted' = <<>>
    /\ generated_values' = <<>>
    /\ UNCHANGED <<pc, exception, input_vars, session_vars, num_epochs, train_vars,
                   caller, sampler_vars>>

InitSampler ==
    /\ pc = "ready"
    /\ \E text \in Texts(SamplerMaxRawLen) : Constructed(<<StrLine(text)>>)
    /\ num_epochs = 0
    /\ NoTrainLocals
    /\ caller = "session"
    /\ generated_values = <<>>
    /\ NoSamplerLocals

NextSampler ==
    \/ call_generate_text
    \/ import_weights
    \/ generate_text_init
    \/ generate_text_step
    \/ generate_text_return

SpecSampler == InitSampler /\ [][NextSampler]_vars

(***************************************************************************)
(* remove_extra_characters.  Its one call (line 145) is a comment, so no    *)
(* session that __init__, train, import_weights and generate_text produce  *)
(* has gone through it; SpecPrune is the sessions of a caller that does     *)
(* call it.                                                                *)
(***************************************************************************)
\* values of min_required_count; 250 is the default
MinRequiredCounts == {1, 2, 250}

\* lines 165-175, called with ''.join(self.data) as line 145 would
remove_extra_characters ==
    /\ pc = "ready"
    /\ \E min_required_count \in MinRequiredCounts :
          unique_char_set' = <<RemoveExtra(unique_char_set[1], 0, Join(data[1]),
                                          min_required_count)>>
    /\ UNCHANGED <<pc, exception, input_vars, model, model_shape, data,
                   max_string_length, char_to_int_dict, int_to_char_dict,
                   num_epochs, train_vars, caller, generated_values, sampler_vars,
                   weights, predicted>>

\* a caller of the session invokes train(num_epochs), once
call_train ==
    /\ pc = "ready"
    /\ features = <<>>
    /\ trace = <<>>
    /\ num_epochs' \in 0..PruneMaxEpochs
    /\ pc' = "train"
    /\ UNCHANGED <<exception, input_vars, session_vars, train_vars, caller,
                   generated_values, sampler_vars, weights, predicted>>

NextPrune ==
    \/ remove_extra_characters
    \/ call_train
    \/ NextTrain
    \/ NextSampler

SpecPrune == InitSampler /\ [][NextPrune]_vars

(***************************************************************************)
(* Properties of the construction and of the training tensors (Spec).      *)
(***************************************************************************)
\* the number of entries of a row that are 1
Ones(row) == Cardinality({c \in 1..Len(row) : row[c] = 1})

\* the row holds a single 1, in (Python) column i
IsOneHotOf(row, i) == \A c \in 1..Len(row) : row[c] = (IF c = i + 1 THEN 1 ELSE 0)

\* the row holds no 1
IsAllZero(row) == \A c \in 1..Len(row) : row[c] = 0

\* the characters of the wrapped records
Symbols(records) == UNION {{records[r][k] : k \in 1..Len(records[r])} : r \in 1..Len(records)}

\* C1: round trip of encode and decode.  For every wrapped record r of the corpus,
\* r is no longer than max_string_length, row i of its encoding decodes (the index
\* of the entry equal to 1, through int_to_char_dict) to r[i] for i < len(r), and
\* is an all-zero row ("no symbol") for len(r) <= i < max_string_length.
C1_RoundTrip ==
    pc = "epoch" =>
        \A r \in 1..Len(data[1]) :
            /\ Len(data[1][r]) <= max_string_length
            /\ Len(features[r]) = max_string_length
            /\ \A i \in 0..(max_string_length - 1) :
                  IF i < Len(data[1][r])
                  THEN /\ Ones(features[r][i + 1]) = 1
                       /\ conversion_index(features[r][i + 1]) \in DOMAIN int_to_char_dict
                       /\ int_to_char_dict[conversion_index(features[r][i + 1])]
                             = data[1][r][i + 1]
                  ELSE /\ IsAllZero(features[r][i + 1])
                       /\ conversion_index(features[r][i + 1]) \notin DOMAIN int_to_char_dict

\* a corpus with a record shorter than max_string_length and one that fills it
C1_Witness ==
    /\ pc = "epoch"
    /\ \E r \in 1..Len(data[1]) : Len(data[1][r]) < max_string_length
    /\ \E r \in 1..Len(data[1]) : Len(data[1][r]) = max_string_length
    /\ Len(unique_char_set[1]) >= 4

\* C2: shift invariant.  For every wrapped record r of length L the target sequence
\* of train has length L, is r[1:] followed by '\0', and row i of its encoding is
\* row i + 1 of the encoding of r for i < L - 1.
C2_ShiftInvariant ==
    pc = "epoch" =>
        \A r \in 1..Len(data[1]) :
            LET rec == data[1][r]
                out == output_sequences[r]
            IN  /\ Len(out) = Len(rec)
                /\ \A k \in 1..Len(out) : out[k] \in DOMAIN int_to_char_dict
                /\ [k \in 1..Len(out) |-> int_to_char_dict[out[k]]] = Tail(rec) \o <<NUL>>
                /\ \A i \in 0..(Len(rec) - 2) : targets[r][i + 1] = features[r][i + 2]

\* a record with text, whose target tensor is not its feature tensor
C2_Witness ==
    /\ pc = "epoch"
    /\ \E r \in 1..Len(data[1]) :
          /\ Len(data[1][r]) >= 5
          /\ targets[r] # features[r]
          /\ output_sequences[r] # input_sequences[r]

\* C3: after get_character_set the two dictionaries are inverse bijections between
\* the symbols of the wrapped records and 0..|vocabulary|-1, and the indices follow
\* the code point order of the symbols.
C3_VocabularyBijection ==
    unique_char_set # <<>> =>
        LET symbols == Symbols(data[1])
        IN  /\ DOMAIN char_to_int_dict = symbols
            /\ DOMAIN int_to_char_dict = 0..(Cardinality(symbols) - 1)
            /\ \A c \in symbols :
                  /\ char_to_int_dict[c] \in DOMAIN int_to_char_dict
                  /\ int_to_char_dict[char_to_int_dict[c]] = c
            /\ \A i \in DOMAIN int_to_char_dict :
                  /\ int_to_char_dict[i] \in symbols
                  /\ char_to_int_dict[int_to_char_dict[i]] = i
            /\ \A c, d \in symbols : c < d => char_to_int_dict[c] < char_to_int_dict[d]

\* a vocabulary with the three sentinels and a character of text, from a text that
\* holds a sentinel itself
C3_Witness ==
    /\ unique_char_set # <<>>
    /\ Len(unique_char_set[1]) >= 4
    /\ NUL \in {file_lines[1].text[k] : k \in 1..Len(file_lines[1].text)}
    /\ char_to_int_dict[SOH] = 1

\* the longest raw text of the file, 0 for a file without records
LongestRaw ==
    IF file_lines = <<>> THEN 0
    ELSE CHOOSE n \in {Len(file_lines[k].text) : k \in 1..Len(file_lines)} :
            \A k \in 1..Len(file_lines) : Len(file_lines[k].text) <= n

\* the dataset file opens, parses, and every object of it holds a str
Readable == file_status = "ok" /\ \A k \in 1..Len(file_lines) : file_lines[k].kind = "str"

\* C6: after import_data on a readable corpus max_string_length is the longest raw
\* record length plus 3, every record is stored as '\1' + text + '\2' + '\0', and
\* no wrapped record is longer than max_string_length.
C6_MaxStringLength ==
    (pc # "import_data" /\ data_source \in {"trump", "alice"} /\ Readable) =>
        /\ data # <<>>
        /\ max_string_length = LongestRaw + 3
        /\ Len(data[1]) = Len(file_lines)
        /\ \A k \in 1..Len(file_lines) :
              /\ data[1][k] = <<SOH>> \o file_lines[k].text \o <<STX, NUL>>
              /\ Len(data[1][k]) <= max_string_length

\* two records of different raw lengths have been imported
C6_Witness ==
    /\ pc = "get_character_set"
    /\ data # <<>>
    /\ Len(file_lines) = 2
    /\ Len(file_lines[1].text) = 2
    /\ Len(file_lines[2].text) = 1
    /\ max_string_length = 5

\* C7: dataset errors are fatal.  With an unknown data source, or a dataset file
\* that cannot be read or parsed, the process terminates in import_data:
\* get_character_set and build_architecture are never reached.
C7_DatasetErrorsFatal ==
    (data_source \notin {"trump", "alice"} \/ ~Readable) =>
        pc \in {"import_data", "exited"}

(***************************************************************************)
(* Properties of the epochs of train (SpecTrain).                          *)
(***************************************************************************)
\* what one epoch does: the fit, then the sample in every 10th epoch, then the
\* save in every 50th
EpochCalls(epoch) ==
    <<<<"fit", epoch>>>>
    \o (IF epoch % 10 = 0 THEN <<<<"sample", epoch>>>> ELSE <<>>)
    \o (IF epoch % 50 = 0 THEN <<<<"save", epoch>>>> ELSE <<>>)

\* the calls of the epochs 0 .. n-1, in order
RECURSIVE TrainCalls(_)
TrainCalls(n) == IF n = 0 THEN <<>> ELSE TrainCalls(n - 1) \o EpochCalls(n - 1)

\* C8: train runs the epochs 0..num_epochs-1 in order, each with exactly one fit;
\* the sampler is invoked exactly in the epochs divisible by 10 and the weights are
\* saved exactly in the epochs divisible by 50; within an epoch the fit comes
\* first, then the sample, then the save.
C8_EpochSchedule ==
    /\ Len(trace) <= Len(TrainCalls(num_epochs))
    /\ trace = SubSeq(TrainCalls(num_epochs), 1, Len(trace))
    /\ pc = "epoch" => trace = TrainCalls(train_index)
    /\ pc = "ready" => trace = TrainCalls(num_epochs)
    /\ pc \in {"generate_text", "gen_loop", "log_sample"} =>
          trace[Len(trace)] = <<"sample", train_index>>

\* train has returned after an epoch that fits, samples and saves, and after
\* epochs that only fit
C8_Witness ==
    /\ pc = "ready"
    /\ num_epochs >= 51
    /\ \E k \in 1..Len(trace) : trace[k] = <<"save", 50>>
    /\ \E k \in 1..Len(trace) : trace[k] = <<"sample", 20>>

(***************************************************************************)
(* Properties of generate_text (SpecSampler).                              *)
(***************************************************************************)
\* what C4 asks of a step of generate_text
C4_Step ==
    pc \in {"generate_text", "gen_loop"} =>
        /\ pc' # "raised"
        /\ exception' = "None"
        /\ (pc' = "gen_loop" /\ index = max_string_length - 1
                             /\ index' = max_string_length) =>
              generated_text' = generated_text

\* C4: bounds safety.  generate_text never raises, whatever the model predicts; the
\* step at position max_string_length-1, whose write goes to row max_string_length,
\* leaves every row of the tensor unchanged.
C4_BoundsSafety == [][C4_Step]_vars

\* the last step is done, and it predicted a symbol that the last row does not hold
C4_Witness ==
    /\ pc = "gen_loop"
    /\ index = max_string_length
    /\ exception = "None"
    /\ predict_value \in DOMAIN int_to_char_dict
    /\ predict_value # conversion_index(generated_text[1][max_string_length])
    /\ predict_value = Len(unique_char_set[1]) - 1

\* C5: sampler determinism.  Calls of generate_text made with the same weights
\* return the same index string and the same symbol string.
C5_SamplerDeterminism ==
    \A i, j \in 1..Len(generated_values) : generated_values[i] = generated_values[j]

\* two calls have returned, with a text of more than one symbol value
C5_Witness ==
    /\ pc = "ready"
    /\ Len(generated_values) = 2
    /\ \E k \in 1..Len(generated_values[2][2]) : generated_values[2][2][k] # SOH
    /\ \E k, l \in 2..Len(generated_values[2][2]) :
          generated_values[2][2][k] # generated_values[2][2][l]

\* C9, the state part: in the loop row 0 is the one-hot of '\1', the rows up to the
\* position of the loop hold a single 1 and the rows beyond it are all-zero.
C9_Rows ==
    pc = "gen_loop" =>
        /\ Len(generated_text) = 1
        /\ Len(generated_text[1]) = max_string_length
        /\ IsOneHotOf(generated_text[1][1], char_to_int_dict[SOH])
        /\ \A r \in 0..(max_string_length - 1) :
              IF r <= index
              THEN Ones(generated_text[1][r + 1]) = 1
              ELSE IsAllZero(generated_text[1][r + 1])

\* C9, the step part: the step at position p < max_string_length-1 sets row p+1 to
\* the one-hot of the arg-max the model gives at row p for the whole current
\* tensor, and changes no other row.
C9_Step ==
    (pc = "gen_loop" /\ pc' = "gen_loop" /\ index' = index + 1
                     /\ index < max_string_length - 1) =>
        /\ <<generated_text, index>> \in DOMAIN predicted'
        /\ predicted'[<<generated_text, index>>] = predict_value'
        /\ IsOneHotOf(generated_text'[1][index + 2], predict_value')
        /\ \A r \in 1..max_string_length :
              r # index + 2 => generated_text'[1][r] = generated_text[1][r]

\* C9: sampler step.  After Init row 0 is the one-hot of '\1' and every other row is
\* all-zero; the step at p < max_string_length-1 writes the one-hot of the arg-max
\* into row p+1 and nothing else, so rows 0..p+1 are one-hot and the rest all-zero.
C9_SamplerStep == []C9_Rows /\ [][C9_Step]_vars

\* two steps are done, and they wrote different symbols
C9_Witness ==
    /\ pc = "gen_loop"
    /\ index = 2
    /\ max_string_length >= 4
    /\ generated_text[1][3] # generated_text[1][2]
    /\ generated_text[1][2] # generated_text[1][1]
    /\ IsAllZero(generated_text[1][4])

\* the entries of an index string: the decimal numbers that end with a ' '
RECURSIVE IndexEntries(_, _)
IndexEntries(string, number) ==
    IF string = <<>> THEN <<>>
    ELSE IF Head(string) = SPACE
    THEN <<number>> \o IndexEntries(Tail(string), NoneIdx)
    ELSE IndexEntries(Tail(string),
                      (IF number = NoneIdx THEN 0 ELSE 10 * number) + (Head(string) - DIGIT0))

\* C10: generate_text runs max_string_length steps and returns max_string_length
\* symbols, the first of them '\1'; the index string has one entry per symbol,
\* entry i being the vocabulary index of symbol i.
C10_FullLength ==
    /\ pc = "gen_loop" =>
          /\ index <= max_string_length
          /\ index >= 1 =>
                Len(generated_char_string) =
                    (IF index + 1 < max_string_length THEN index + 1 ELSE max_string_length)
    /\ \A k \in 1..Len(generated_values) :
          LET ints == generated_values[k][1]
              chars == generated_values[k][2]
          IN  /\ Len(chars) = max_string_length
              /\ chars[1] = SOH
              /\ ints # <<>>
              /\ ints[Len(ints)] = SPACE
              /\ IndexEntries(ints, NoneIdx) =
                    [i \in 1..Len(chars) |-> char_to_int_dict[chars[i]]]

\* a call has returned a text that holds a character of the raw text
C10_Witness ==
    /\ Len(generated_values) >= 1
    /\ max_string_length = 4
    /\ \E i \in 1..Len(generated_values[1][2]) :
          generated_values[1][2][i] \notin {NUL, SOH, STX}
    /\ generated_values[1][2][max_string_length] # NUL

====
